---- MODULE Spec2Model ----
(***************************************************************************)
(* Model of EconVisualizer (src/econ_viz.py): the canvas lifecycle         *)
(* (setup_canvas, render_timestep, save) on top of pyplot's figure         *)
(* registry, and the four drawing methods.                                 *)
(*                                                                         *)
(* Lengths, coordinates and opacities are reals in the source; they are    *)
(* kept here as integers counting thousandths (2.0 is 2000, 0.25 is 250),  *)
(* which is exact for every value the model uses: all halved quantities    *)
(* are even.  Font sizes, dpi and time indices are plain integers.         *)
(* An Optional[str] is a sequence of at most one string: <<>> is None.     *)
(* plt.tight_layout() and show() add or remove no primitive and are left   *)
(* out; an exception raised by a method is recorded as the call's result   *)
(* and the caller goes on.                                                 *)
(***************************************************************************)
EXTENDS Integers, Sequences, FiniteSets, TLC

(* ---------------------------------------------------------------- bounds *)

\* At most MaxFigs figures are ever created (pyplot never closes one).
MaxFigs == 3
\* Frame indices passed to render_timestep range over -MaxIdx..MaxIdx.
MaxIdx == 2
\* A drawing method is called directly only on a canvas shorter than this.
MaxPrims == 2

(* ------------------------------------------------------ program constants *)

CountryWidth == 2000
CountryHeight == 1600
StructuralWidth == 1500
StructuralHeight == 1200
IndividualRadius == 250
AgentLabelFontsize == 9
FlowLabelFontsize == 9
FlowLabelOffset == 300
TitleFontsize == 16
SubtitleFontsize == 13
TopTitleFontsize == 18
TopTitleY == 7500
DefaultLabelFontsize == 11
DefaultGoodSize == 300
DefaultThickness == 2000
DefaultDpi == 300

(* ------------------------------------------------------------- data model *)

None == <<>>
Some(s) == <<s>>

\* Python truthiness of an Optional[str]: None and "" are both falsy.
Truthy(opt) == opt # None /\ opt[1] # ""

Agent(type, id, position, label) ==
    [type |-> type, id |-> id, count |-> 1, position |-> position,
     color |-> "tan", label |-> label]

Good(type, count, position, size) ==
    [type |-> type, count |-> count, position |-> position,
     color |-> "white", size |-> size]

\* label is a plain str defaulting to "".
Flow(from_pos, to_pos, label) ==
    [from_pos |-> from_pos, to_pos |-> to_pos, label |-> label,
     thickness |-> DefaultThickness, color |-> "white"]

Label(text, position, fontsize, style) ==
    [text |-> text, position |-> position, fontsize |-> fontsize, style |-> style]

TimeStep(t, agents, goods, flows, labels) ==
    [t |-> t, agents |-> agents, goods |-> goods, flows |-> flows, labels |-> labels]

EconomicConcept(name, time_steps) ==
    [name |-> name, time_steps |-> time_steps]

(* ------------------------------------------------- primitives on a canvas *)

\* mpatches.Rectangle(xy, width, height, ...): xy is the lower-left corner.
Rectangle(xy, width, height, facecolor, linewidth, alpha) ==
    [kind |-> "Rectangle", xy |-> xy, width |-> width, height |-> height,
     facecolor |-> facecolor, linewidth |-> linewidth, alpha |-> alpha]

Circle(center, radius, facecolor, linewidth) ==
    [kind |-> "Circle", center |-> center, radius |-> radius,
     facecolor |-> facecolor, linewidth |-> linewidth]

\* ax.annotate('', xy=to, xytext=from, arrowprops=...): one arrow.
Arrow(from_pos, to_pos, lw, color) ==
    [kind |-> "Arrow", xytext |-> from_pos, xy |-> to_pos, lw |-> lw,
     color |-> color, alpha |-> 900]

\* ax.text(x, y, s, ...).  bbox is None or Some(panel opacity); va is
\* "center" when the call passes va='center' and matplotlib's default
\* "baseline" otherwise.
Text(position, s, fontsize, weight, va, bbox) ==
    [kind |-> "Text", position |-> position, text |-> s, fontsize |-> fontsize,
     weight |-> weight, ha |-> "center", va |-> va, bbox |-> bbox]

Half(v) == v \div 2

(* -------------------------------------------------------- drawing methods *)
\* Each takes the contents of self.ax (the sequence of primitives added so
\* far) and returns the contents after the call.

\* draw_agent with the rectangle anchored at (x, y) instead of centred on it.
draw_agent_corner(ax, agent) ==
    LET x == agent.position[1]
        y == agent.position[2]
    IN  IF agent.type \in {"country", "firm", "institution", "market"}
        THEN LET width  == IF agent.type = "country" THEN CountryWidth ELSE StructuralWidth
                 height == IF agent.type = "country" THEN CountryHeight ELSE StructuralHeight
                 rect   == Rectangle(<<x, y>>, width, height, agent.color, 1500, 850)
             IN  IF Truthy(agent.label)
                 THEN Append(Append(ax, rect),
                             Text(<<x, y>>, agent.label[1], AgentLabelFontsize,
                                  "bold", "center", None))
                 ELSE Append(ax, rect)
        ELSE IF agent.type = "individual"
        THEN Append(ax, Circle(<<x, y>>, IndividualRadius, agent.color, 1000))
        ELSE ax

\* draw_agent with the label text drawn for individuals too.
draw_agent_individual_label(ax, agent) ==
    LET x == agent.position[1]
        y == agent.position[2]
        labelled(a) == IF Truthy(agent.label)
                       THEN Append(a, Text(<<x, y>>, agent.label[1], AgentLabelFontsize,
                                           "bold", "center", None))
                       ELSE a
    IN  IF agent.type \in {"country", "firm", "institution", "market"}
        THEN LET width  == IF agent.type = "country" THEN CountryWidth ELSE StructuralWidth
                 height == IF agent.type = "country" THEN CountryHeight ELSE StructuralHeight
             IN  labelled(Append(ax, Rectangle(<<x - Half(width), y - Half(height)>>,
                                               width, height, agent.color, 1500, 850)))
        ELSE IF agent.type = "individual"
        THEN labelled(Append(ax, Circle(<<x, y>>, IndividualRadius, agent.color, 1000)))
        ELSE ax

\* draw_agent with the circle as the fall-through branch (else, not elif).
draw_agent_default_shape(ax, agent) ==
    LET x == agent.position[1]
        y == agent.position[2]
    IN  IF agent.type \in {"country", "firm", "institution", "market"}
        THEN LET width  == IF agent.type = "country" THEN CountryWidth ELSE StructuralWidth
                 height == IF agent.type = "country" THEN CountryHeight ELSE StructuralHeight
                 rect   == Rectangle(<<x - Half(width), y - Half(height)>>,
                                     width, height, agent.color, 1500, 850)
             IN  IF Truthy(agent.label)
                 THEN Append(Append(ax, rect),
                             Text(<<x, y>>, agent.label[1], AgentLabelFontsize,
                                  "bold", "center", None))
                 ELSE Append(ax, rect)
        ELSE Append(ax, Circle(<<x, y>>, IndividualRadius, agent.color, 1000))

draw_agent(ax, agent) ==
    LET x == agent.position[1]
        y == agent.position[2]
    IN  IF agent.type \in {"country", "firm", "institution", "market"}
        THEN LET width  == IF agent.type = "country" THEN CountryWidth ELSE StructuralWidth
                 height == IF agent.type = "country" THEN CountryHeight ELSE StructuralHeight
                 rect   == Rectangle(<<x - Half(width), y - Half(height)>>,
                                     width, height, agent.color, 1500, 850)
             IN  IF Truthy(agent.label)
                 THEN Append(Append(ax, rect),
                             Text(<<x, y>>, agent.label[1], AgentLabelFontsize,
                                  "bold", "center", None))
                 ELSE Append(ax, rect)
        ELSE IF agent.type = "individual"
        THEN Append(ax, Circle(<<x, y>>, IndividualRadius, agent.color, 1000))
        ELSE ax

draw_good(ax, good) ==
    LET x == good.position[1]
        y == good.position[2]
        size == good.size
    IN  Append(ax, Rectangle(<<x - Half(size), y - Half(size)>>, size, size,
                             good.color, 800, 900))

\* draw_label with label.fontsize used for every style.
draw_label_own_fontsize(ax, label) ==
    LET alpha == IF label.style = "title" THEN 800
                 ELSE IF label.style = "subtitle" THEN 750 ELSE 700
        weight == IF label.style = "title" THEN "bold"
                  ELSE IF label.style = "subtitle" THEN "semibold" ELSE "normal"
    IN  Append(ax, Text(label.position, label.text, label.fontsize, weight,
                        "center", Some(alpha)))

draw_label(ax, label) ==
    LET fontsize == IF label.style = "title" THEN TitleFontsize
                    ELSE IF label.style = "subtitle" THEN SubtitleFontsize
                    ELSE label.fontsize
        weight == IF label.style = "title" THEN "bold"
                  ELSE IF label.style = "subtitle" THEN "semibold" ELSE "normal"
        alpha == IF label.style = "title" THEN 800
                 ELSE IF label.style = "subtitle" THEN 750 ELSE 700
    IN  Append(ax, Text(label.position, label.text, fontsize, weight,
                        "center", Some(alpha)))

\* draw_flow with the label drawn before the arrow.
draw_flow_label_first(ax, flow) ==
    LET arrow == Arrow(flow.from_pos, flow.to_pos, flow.thickness, flow.color)
        mid_x == Half(flow.from_pos[1] + flow.to_pos[1])
        mid_y == Half(flow.from_pos[2] + flow.to_pos[2])
    IN  IF flow.label # ""
        THEN Append(draw_label(ax, Label(flow.label, <<mid_x, mid_y + FlowLabelOffset>>,
                                         FlowLabelFontsize, "normal")), arrow)
        ELSE Append(ax, arrow)

draw_flow(ax, flow) ==
    LET withArrow == Append(ax, Arrow(flow.from_pos, flow.to_pos,
                                      flow.thickness, flow.color))
        mid_x == Half(flow.from_pos[1] + flow.to_pos[1])
        mid_y == Half(flow.from_pos[2] + flow.to_pos[2])
    IN  IF flow.label # ""
        THEN draw_label(withArrow, Label(flow.label, <<mid_x, mid_y + FlowLabelOffset>>,
                                         FlowLabelFontsize, "normal"))
        ELSE withArrow

(* --------------------------------------------------------- render_timestep *)

RECURSIVE draw_agents(_, _)
draw_agents(ax, agents) ==
    IF agents = <<>> THEN ax
    ELSE draw_agents(draw_agent(ax, Head(agents)), Tail(agents))

RECURSIVE draw_goods(_, _)
draw_goods(ax, goods) ==
    IF goods = <<>> THEN ax
    ELSE draw_goods(draw_good(ax, Head(goods)), Tail(goods))

RECURSIVE draw_flows(_, _)
draw_flows(ax, flows) ==
    IF flows = <<>> THEN ax
    ELSE draw_flows(draw_flow(ax, Head(flows)), Tail(flows))

RECURSIVE draw_labels(_, _)
draw_labels(ax, labels) ==
    IF labels = <<>> THEN ax
    ELSE draw_labels(draw_label(ax, Head(labels)), Tail(labels))

\* f"{concept.name} (t={timestep.t})"
title_text(name, t) == name \o " (t=" \o ToString(t) \o ")"

top_title(concept, t) ==
    Text(<<0, TopTitleY>>, title_text(concept.name, t), TopTitleFontsize,
         "bold", "baseline", None)

\* The loops of render_timestep with labels drawn before flows.
draw_components_labels_under_flows(ax, concept, timestep) ==
    Append(draw_flows(draw_labels(draw_goods(draw_agents(ax,
               timestep.agents), timestep.goods), timestep.labels), timestep.flows),
           top_title(concept, timestep.t))

\* Lines 231-247: the four loops and the title, on the canvas ax.
draw_components(ax, concept, timestep) ==
    Append(draw_labels(draw_flows(draw_goods(draw_agents(ax,
               timestep.agents), timestep.goods), timestep.flows), timestep.labels),
           top_title(concept, timestep.t))

\* Python list indexing: i in 0..n-1 counts from the front, i in -n..-1
\* counts from the back, anything else raises IndexError.
InRange(list, i) == -Len(list) <= i /\ i < Len(list)
Index(list, i) == IF i >= 0 THEN list[i + 1] ELSE list[Len(list) + i + 1]

\* plt.subplots(): pyplot registers a new, empty figure under the next
\* number and makes it the current figure.  figs is pyplot's registry, the
\* sequence of the contents of figures 1..Len(figs); the new figure is the
\* last one of the result.
\* setup_canvas with the new canvas starting from the previous figure's
\* contents instead of empty.
setup_canvas_not_cleared(figs) ==
    Append(figs, IF figs = <<>> THEN <<>> ELSE figs[Len(figs)])

setup_canvas(figs) == Append(figs, <<>>)

\* render_timestep with the index looked up before the canvas is set up.
render_timestep_index_first(figs, concept, timestep_idx) ==
    IF InRange(concept.time_steps, timestep_idx)
    THEN LET fresh == setup_canvas(figs)
         IN  [figures |-> [fresh EXCEPT ![Len(fresh)] =
                              draw_components(@, concept,
                                              Index(concept.time_steps, timestep_idx))],
              result |-> "ok"]
    ELSE [figures |-> figs, result |-> "IndexError"]

\* render_timestep on pyplot's registry figs: the registry afterwards (the
\* canvas of this call is its last figure) and how the call ended.
render_timestep(figs, concept, timestep_idx) ==
    LET fresh == setup_canvas(figs)
    IN  IF InRange(concept.time_steps, timestep_idx)
        THEN [figures |-> [fresh EXCEPT ![Len(fresh)] =
                              draw_components(@, concept,
                                              Index(concept.time_steps, timestep_idx))],
              result |-> "ok"]
        ELSE [figures |-> fresh, result |-> "IndexError"]

(* ------------------------------------------------------------------ inputs *)

Renderers == {"v1", "v2"}

PosA == <<-5000, 0>>
PosB == <<5000, 0>>
Positions == {PosA, PosB}

KnownKinds == {"individual", "firm", "institution", "country", "market"}
AgentKinds == KnownKinds \cup {"household"}
AgentLabels == {None, Some(""), Some("USA")}

AgentInputs == {Agent(k, "a", p, l) : k \in AgentKinds, p \in Positions, l \in AgentLabels}
GoodInputs == {Good("cloth", 1, p, size) : p \in Positions, size \in {DefaultGoodSize, 500}}
\* from_pos # to_pos is the data model's invariant for a flow.
FlowInputs == {Flow(pq[1], pq[2], l) : pq \in {<<PosA, PosB>>, <<PosB, PosA>>},
                                        l \in {"", "8 cloth"}}
LabelInputs == {Label("TRADE", p, fs, st) : p \in Positions,
                    fs \in {DefaultLabelFontsize, 20},
                    st \in {"normal", "title", "subtitle"}}

\* The frames rendered: small TimeStep values in the shape of the concept
\* library's (two countries at (-5, 0) and (5, 0), flows between them), with
\* an agent of a type outside the Literal, an empty agent label and time
\* indices that differ from the frame's position in its concept.
Autarky ==
    TimeStep(0, <<Agent("country", "A", PosA, None), Agent("country", "B", PosB, None)>>,
             <<>>, <<>>, <<Label("NO TRADE", <<0, -6500>>, 12, "title")>>)

Trade ==
    TimeStep(1,
             <<Agent("country", "A", PosA, Some("A")),
               Agent("household", "H", <<0, 0>>, Some("H")),
               Agent("individual", "i", PosB, Some("Bob"))>>,
             <<Good("cloth", 1, <<-6000, -2500>>, 250)>>,
             <<Flow(<<-3000, 0>>, <<3000, 0>>, "8 cloth"),
               Flow(<<3000, -1000>>, <<-3000, -1000>>, "")>>,
             <<Label("COUNTRY A", <<-5000, 1500>>, DefaultLabelFontsize, "subtitle"),
               Label("TRADE", <<0, 800>>, 10, "normal")>>)

Blank == TimeStep(5, <<>>, <<>>, <<>>, <<>>)

Clearing ==
    TimeStep(2, <<Agent("cooperative", "C", PosB, None),
                  Agent("market", "M", <<0, 0>>, Some("MKT")),
                  Agent("firm", "F", PosA, Some(""))>>,
             <<Good("unit", 1, <<-3000, 1500>>, DefaultGoodSize)>>,
             <<Flow(PosA, <<-1000, 0>>, "$7")>>,
             <<Label("PRICE = $7", <<0, -3500>>, 12, "subtitle")>>)

AbsoluteAdvantage == EconomicConcept("Absolute Advantage", <<Autarky, Trade>>)
MarketEquilibrium == EconomicConcept("Market Equilibrium", <<Clearing>>)
Untitled == EconomicConcept("", <<Blank>>)

Concepts == {AbsoluteAdvantage, MarketEquilibrium}
Indices == (-MaxIdx)..MaxIdx
Filenames == {"out.png"}
\* The drawing methods are exercised on the canvas of one earlier render.
DrawConcepts == Concepts \cup {Untitled}
DrawIndices == {0, 1}

(* ------------------------------------------------------------------- state *)

VARIABLES
    fig,        \* fig[v]: self.fig / self.ax of renderer v, a figure number; 0 is None
    figures,    \* pyplot's registry: figures[n] is the primitive sequence on figure n
    gcf,        \* pyplot's current figure number; 0 when there is none
    sink,       \* the last image handed to the image sink, None before the first
    last,       \* the last call made: method, renderer, argument, how it ended
    rendered    \* rendered[v]: the arguments and outcome of v's last render_timestep

vars == <<fig, figures, gcf, sink, last, rendered>>

Call(op, v, arg, result) == [op |-> op, v |-> v, arg |-> arg, result |-> result]

\* EconVisualizer() twice; nothing drawn, no figure open.
Init ==
    /\ fig = [v \in Renderers |-> 0]
    /\ figures = <<>>
    /\ gcf = 0
    /\ sink = None
    /\ last = Call("__init__", "v2", <<>>, "ok")
    /\ rendered = [v \in Renderers |-> None]

RenderTimestep(v, concept, timestep_idx) ==
    /\ Len(figures) < MaxFigs
    /\ LET out == render_timestep(figures, concept, timestep_idx)
       IN  /\ figures' = out.figures
           /\ fig' = [fig EXCEPT ![v] = Len(out.figures)]
           /\ gcf' = Len(out.figures)
           /\ last' = Call("render_timestep", v,
                           [concept |-> concept, timestep_idx |-> timestep_idx], out.result)
           /\ rendered' = [rendered EXCEPT ![v] =
                  Some([concept |-> concept, timestep_idx |-> timestep_idx,
                        result |-> out.result])]
    /\ UNCHANGED sink

\* plt.savefig writes pyplot's current figure; with no figure open, gcf()
\* first opens an empty one.
savefig(v, filename) ==
    LET figs == IF gcf = 0 THEN Append(figures, <<>>) ELSE figures
        cur  == IF gcf = 0 THEN Len(figs) ELSE gcf
    IN  /\ gcf # 0 \/ Len(figures) < MaxFigs
        /\ figures' = figs
        /\ gcf' = cur
        /\ sink' = Some([figure |-> cur, prims |-> figs[cur], filename |-> filename,
                         dpi |-> DefaultDpi, bbox_inches |-> "tight",
                         facecolor |-> "white"])

Save(v, filename) ==
    /\ savefig(v, filename)
    /\ last' = Call("save", v, filename, "ok")
    /\ UNCHANGED <<fig, rendered>>

Next ==
    \/ \E v \in Renderers, concept \in Concepts, i \in Indices : RenderTimestep(v, concept, i)
    \/ \E v \in Renderers, filename \in Filenames : Save(v, filename)

Spec == Init /\ [][Next]_vars

(* ------------------------------------------- drawing methods called directly *)

\* self.ax is None before the first setup_canvas: the first use of it
\* (add_patch, annotate, text) raises AttributeError and nothing is drawn.
\* draw_agent with an unrecognised type never touches self.ax.
DrawAgent(v, agent) ==
    /\ IF fig[v] = 0
       THEN /\ UNCHANGED figures
            /\ last' = Call("draw_agent", v, agent,
                            IF agent.type \in KnownKinds THEN "AttributeError" ELSE "ok")
       ELSE /\ Len(figures[fig[v]]) < MaxPrims
            /\ figures' = [figures EXCEPT ![fig[v]] = draw_agent(@, agent)]
            /\ last' = Call("draw_agent", v, agent, "ok")
    /\ UNCHANGED <<fig, gcf, sink, rendered>>

DrawGood(v, good) ==
    /\ IF fig[v] = 0
       THEN /\ UNCHANGED figures
            /\ last' = Call("draw_good", v, good, "AttributeError")
       ELSE /\ Len(figures[fig[v]]) < MaxPrims
            /\ figures' = [figures EXCEPT ![fig[v]] = draw_good(@, good)]
            /\ last' = Call("draw_good", v, good, "ok")
    /\ UNCHANGED <<fig, gcf, sink, rendered>>

DrawFlow(v, flow) ==
    /\ IF fig[v] = 0
       THEN /\ UNCHANGED figures
            /\ last' = Call("draw_flow", v, flow, "AttributeError")
       ELSE /\ Len(figures[fig[v]]) < MaxPrims
            /\ figures' = [figures EXCEPT ![fig[v]] = draw_flow(@, flow)]
            /\ last' = Call("draw_flow", v, flow, "ok")
    /\ UNCHANGED <<fig, gcf, sink, rendered>>

DrawLabel(v, label) ==
    /\ IF fig[v] = 0
       THEN /\ UNCHANGED figures
            /\ last' = Call("draw_label", v, label, "AttributeError")
       ELSE /\ Len(figures[fig[v]]) < MaxPrims
            /\ figures' = [figures EXCEPT ![fig[v]] = draw_label(@, label)]
            /\ last' = Call("draw_label", v, label, "ok")
    /\ UNCHANGED <<fig, gcf, sink, rendered>>

\* Renderer v1 has made one render_timestep call, or none yet (its self.ax
\* is still None); the drawing methods are then called on v1.
InitDraw ==
    \/ Init
    \/ \E concept \in DrawConcepts, i \in DrawIndices :
        LET out == render_timestep(<<>>, concept, i)
            arg == [concept |-> concept, timestep_idx |-> i]
        IN  /\ figures = out.figures
            /\ fig = [v \in Renderers |-> IF v = "v1" THEN Len(out.figures) ELSE 0]
            /\ gcf = Len(out.figures)
            /\ sink = None
            /\ last = Call("render_timestep", "v1", arg, out.result)
            /\ rendered = [v \in Renderers |->
                              IF v = "v1"
                              THEN Some([concept |-> concept, timestep_idx |-> i,
                                         result |-> out.result])
                              ELSE None]

NextDraw ==
    \/ \E agent \in AgentInputs : DrawAgent("v1", agent)
    \/ \E good \in GoodInputs : DrawGood("v1", good)
    \/ \E flow \in FlowInputs : DrawFlow("v1", flow)
    \/ \E label \in LabelInputs : DrawLabel("v1", label)

SpecDraw == InitDraw /\ [][NextDraw]_vars

(* ------------------------------------------------------------------ claims *)

\* The primitives one entity contributes, drawn alone on an empty canvas.
RECURSIVE AgentLayer(_)
AgentLayer(agents) ==
    IF agents = <<>> THEN <<>>
    ELSE draw_agent(<<>>, Head(agents)) \o AgentLayer(Tail(agents))

RECURSIVE GoodLayer(_)
GoodLayer(goods) ==
    IF goods = <<>> THEN <<>>
    ELSE draw_good(<<>>, Head(goods)) \o GoodLayer(Tail(goods))

RECURSIVE FlowLayer(_)
FlowLayer(flows) ==
    IF flows = <<>> THEN <<>>
    ELSE draw_flow(<<>>, Head(flows)) \o FlowLayer(Tail(flows))

RECURSIVE LabelLayer(_)
LabelLayer(labels) ==
    IF labels = <<>> THEN <<>>
    ELSE draw_label(<<>>, Head(labels)) \o LabelLayer(Tail(labels))

TitleOf(concept, frame) ==
    [kind |-> "Text", position |-> <<0, 7500>>,
     text |-> concept.name \o " (t=" \o ToString(frame.t) \o ")",
     fontsize |-> 18, weight |-> "bold", ha |-> "center", va |-> "baseline",
     bbox |-> None]

FramePrims(concept, frame) ==
    AgentLayer(frame.agents) \o GoodLayer(frame.goods) \o FlowLayer(frame.flows)
        \o LabelLayer(frame.labels) \o <<TitleOf(concept, frame)>>

LastRenderOk == last.op = "render_timestep" /\ last.result = "ok"
LastFrames == last.arg.concept.time_steps
LastCanvas == figures[fig[last.v]]

TwoCountriesOneLabel(frame) ==
    /\ Len(frame.agents) = 2
    /\ \A k \in 1..2 : frame.agents[k].type = "country" /\ frame.agents[k].label = None
    /\ frame.goods = <<>>
    /\ frame.flows = <<>>
    /\ Len(frame.labels) = 1

\* C1: after render_timestep with a frame index in 0..n-1, the canvas holds
\* exactly the agents' primitives, then the goods', then the flows' (arrow,
\* then its label), then the labels', then one title text built from the
\* frame's own t; a frame of two unlabelled countries and one label gives
\* 2 rectangles, 1 label text, 1 title text.
C1_LayerOrder ==
    (LastRenderOk /\ last.arg.timestep_idx \in 0..(Len(LastFrames) - 1)) =>
        LET frame == LastFrames[last.arg.timestep_idx + 1]
        IN  /\ LastCanvas = FramePrims(last.arg.concept, frame)
            /\ TwoCountriesOneLabel(frame) =>
                  /\ Len(LastCanvas) = 4
                  /\ \A k \in 1..2 : /\ LastCanvas[k].kind = "Rectangle"
                                     /\ LastCanvas[k].width = 2000
                                     /\ LastCanvas[k].height = 1600
                  /\ LastCanvas[3].kind = "Text" /\ LastCanvas[3].bbox # None
                  /\ LastCanvas[4] = TitleOf(last.arg.concept, frame)

\* A frame with all four sequences non-empty has just been rendered.
C1_Witness ==
    /\ LastRenderOk
    /\ last.arg.timestep_idx = 1
    /\ LastFrames[2].agents # <<>> /\ LastFrames[2].goods # <<>>
    /\ LastFrames[2].flows # <<>> /\ LastFrames[2].labels # <<>>
    /\ Len(LastCanvas) = 10

\* C2: render_timestep with an index outside 0..n-1, negative ones included,
\* fails with an out-of-range error and leaves its canvas without primitives.
C2_OutOfRangeFails ==
    (last.op = "render_timestep"
        /\ last.arg.timestep_idx \notin 0..(Len(LastFrames) - 1)) =>
        /\ last.result = "IndexError"
        /\ LastCanvas = <<>>

\* C3: the active canvas of every renderer holds exactly the primitives of
\* the frame of its most recent successful render_timestep, so two renders
\* of the same frame leave equal canvases whatever was rendered in between.
C3_FreshCanvas ==
    /\ \A v \in Renderers :
          (rendered[v] # None /\ rendered[v][1].result = "ok") =>
              LET call == rendered[v][1]
              IN  figures[fig[v]] =
                      FramePrims(call.concept,
                                 Index(call.concept.time_steps, call.timestep_idx))
    /\ \A v \in Renderers, w \in Renderers :
          (rendered[v] # None /\ rendered[v] = rendered[w]
              /\ rendered[v][1].result = "ok") => figures[fig[v]] = figures[fig[w]]

\* The same frame rendered twice by one renderer with another frame between.
C3_Witness ==
    \E v \in Renderers :
        /\ Len(figures) = 3 /\ fig[v] = 3
        /\ rendered[v] # None /\ rendered[v][1].result = "ok"
        /\ figures[1] = figures[3]
        /\ figures[2] # figures[3] /\ figures[2] # <<>>

\* A drawing method has just returned normally on a renderer with a canvas;
\* Before and After are that canvas around the call, Added what the call
\* appended.
Drew(op) == last'.op = op /\ last'.result = "ok" /\ fig[last'.v] # 0
Before == figures[fig[last'.v]]
After == figures'[fig[last'.v]]
Added == SubSeq(After, Len(Before) + 1, Len(After))
Extends == Len(After) >= Len(Before) /\ SubSeq(After, 1, Len(Before)) = Before

\* C4: for a country, firm, institution or market, draw_agent adds exactly
\* one rectangle centred at agent.position, 2.0 x 1.6 for a country and
\* 1.5 x 1.2 otherwise; the only other primitive is at most one text centred
\* at the same position, and only when the agent has a label.
C4_StructuralRectangle ==
    [][(Drew("draw_agent")
           /\ last'.arg.type \in {"country", "firm", "institution", "market"}) =>
          LET agent == last'.arg
              w == IF agent.type = "country" THEN 2000 ELSE 1500
              h == IF agent.type = "country" THEN 1600 ELSE 1200
          IN  /\ Extends
              /\ Len(Added) \in {1, 2}
              /\ Added[1].kind = "Rectangle"
              /\ Added[1].width = w /\ Added[1].height = h
              /\ 2 * Added[1].xy[1] + w = 2 * agent.position[1]
              /\ 2 * Added[1].xy[2] + h = 2 * agent.position[2]
              /\ Len(Added) = 2 =>
                    /\ Added[2].kind = "Text"
                    /\ Added[2].position = agent.position
                    /\ Added[2].ha = "center" /\ Added[2].va = "center"
                    /\ agent.label # None
    ]_vars

\* A labelled firm was drawn on a canvas that already held a primitive.
C4_Witness ==
    /\ last.op = "draw_agent" /\ last.result = "ok" /\ fig[last.v] # 0
    /\ last.arg.type = "firm" /\ last.arg.label = Some("USA")
    /\ Len(LastCanvas) = 3
    /\ LastCanvas[2].kind = "Rectangle" /\ LastCanvas[3].kind = "Text"

\* C5: for an individual, draw_agent adds exactly one circle of radius 0.25
\* centred at agent.position and no text, whatever the agent's label.
C5_IndividualCircle ==
    [][(Drew("draw_agent") /\ last'.arg.type = "individual") =>
          /\ Extends
          /\ Len(Added) = 1
          /\ Added[1].kind = "Circle"
          /\ Added[1].radius = 250
          /\ Added[1].center = last'.arg.position
    ]_vars

\* A labelled individual was drawn on a canvas that already held a primitive.
C5_Witness ==
    /\ last.op = "draw_agent" /\ last.result = "ok" /\ fig[last.v] # 0
    /\ last.arg.type = "individual" /\ last.arg.label = Some("USA")
    /\ Len(LastCanvas) = 2
    /\ LastCanvas[2].kind = "Circle"

IsKnown(agent) == agent.type \in {"individual", "firm", "institution", "country", "market"}

\* C6: for an agent of any other type, draw_agent adds nothing, changes no
\* canvas and raises no error; render_timestep of a frame holding such an
\* agent succeeds and draws the frame's remaining entities.
C6_UnknownKindSkipped ==
    /\ [][(last'.op = "draw_agent" /\ ~IsKnown(last'.arg)) =>
             /\ last'.result = "ok"
             /\ figures' = figures
       ]_vars
    /\ []((last.op = "render_timestep"
              /\ last.arg.timestep_idx \in 0..(Len(LastFrames) - 1)) =>
             LET frame == LastFrames[last.arg.timestep_idx + 1]
             IN  /\ last.result = "ok"
                 /\ LastCanvas =
                        FramePrims(last.arg.concept,
                            [frame EXCEPT !.agents = SelectSeq(frame.agents, IsKnown)]))

\* An agent of unknown type was drawn on a canvas that held a primitive.
C6_Witness ==
    /\ last.op = "draw_agent" /\ last.result = "ok" /\ fig[last.v] # 0
    /\ ~IsKnown(last.arg)
    /\ LastCanvas # <<>>

\* C7: for a flow with a non-empty label, draw_flow adds exactly one arrow
\* from from_pos to to_pos followed by one label of style normal and font
\* size 9 at the midpoint raised by 0.3; for an empty label, the arrow only.
C7_FlowArrowThenLabel ==
    [][Drew("draw_flow") =>
          LET flow == last'.arg
          IN  /\ Extends
              /\ Len(Added) = IF flow.label = "" THEN 1 ELSE 2
              /\ Added[1].kind = "Arrow"
              /\ Added[1].xytext = flow.from_pos /\ Added[1].xy = flow.to_pos
              /\ flow.label # "" =>
                    /\ Added[2].kind = "Text"
                    /\ Added[2].text = flow.label
                    /\ Added[2].fontsize = 9
                    /\ Added[2].weight = "normal" /\ Added[2].bbox = Some(700)
                    /\ 2 * Added[2].position[1] = flow.from_pos[1] + flow.to_pos[1]
                    /\ 2 * (Added[2].position[2] - 300) = flow.from_pos[2] + flow.to_pos[2]
    ]_vars

\* A labelled flow was drawn on a canvas that already held a primitive.
C7_Witness ==
    /\ last.op = "draw_flow" /\ last.result = "ok" /\ fig[last.v] # 0
    /\ last.arg.label # ""
    /\ Len(LastCanvas) = 3
    /\ LastCanvas[2].kind = "Arrow" /\ LastCanvas[3].kind = "Text"

\* C8: draw_label adds exactly one text centred at label.position with
\* (font size, weight, panel opacity) (16, bold, 0.8) for title,
\* (13, semibold, 0.75) for subtitle and (label.fontsize, normal, 0.7) for
\* normal.
C8_LabelStyleTable ==
    [][(Drew("draw_label") /\ last'.arg.style \in {"title", "subtitle", "normal"}) =>
          LET label == last'.arg
          IN  /\ Extends
              /\ Len(Added) = 1
              /\ Added[1].kind = "Text"
              /\ Added[1].position = label.position
              /\ Added[1].ha = "center" /\ Added[1].va = "center"
              /\ Added[1].text = label.text
              /\ <<Added[1].fontsize, Added[1].weight, Added[1].bbox>> =
                    CASE label.style = "title" -> <<16, "bold", Some(800)>>
                      [] label.style = "subtitle" -> <<13, "semibold", Some(750)>>
                      [] label.style = "normal" -> <<label.fontsize, "normal", Some(700)>>
    ]_vars

\* A title-style label with its own font size 20 was drawn.
C8_Witness ==
    /\ last.op = "draw_label" /\ last.result = "ok" /\ fig[last.v] # 0
    /\ last.arg.style = "title" /\ last.arg.fontsize = 20
    /\ Len(LastCanvas) = 2
    /\ LastCanvas[2].kind = "Text" /\ LastCanvas[2].fontsize = 16

FailedRender == last'.op = "render_timestep" /\ last'.result = "IndexError"

\* C9 as claimed: a render_timestep that fails on its index, made by a
\* renderer whose previous render succeeded, leaves the renderer's canvas
\* handle, the figures and the figure that save would write unchanged.
C9_FailureChangesNothing ==
    [][(FailedRender /\ rendered[last'.v] # None /\ rendered[last'.v][1].result = "ok") =>
          /\ fig' = fig
          /\ figures' = figures
          /\ gcf' = gcf
    ]_vars

\* C9 as amended: the failing call keeps every earlier figure as it was but
\* opens a new, empty one that becomes the renderer's canvas and the current
\* figure; a save right after the failed call writes that empty canvas.
C9_FailureLeavesEmptyCanvas ==
    [][/\ FailedRender =>
             /\ figures' = Append(figures, <<>>)
             /\ fig' = [fig EXCEPT ![last'.v] = Len(figures) + 1]
             /\ gcf' = Len(figures) + 1
             /\ sink' = sink
       /\ (last.op = "render_timestep" /\ last.result = "IndexError"
              /\ last'.op = "save") =>
             /\ sink'[1].figure = fig[last.v]
             /\ sink'[1].prims = <<>>
    ]_vars

\* A renderer rendered a frame, then failed on an index, then saved: the
\* sink holds the empty canvas while the earlier drawing is still registered.
C9_Witness ==
    /\ last.op = "save"
    /\ rendered[last.v] # None /\ rendered[last.v][1].result = "IndexError"
    /\ fig[last.v] = 2
    /\ figures[1] # <<>> /\ figures[2] = <<>>
    /\ sink # None /\ sink[1].figure = 2 /\ sink[1].prims = <<>>

\* C10: save on a renderer that has rendered hands the sink that renderer's
\* own active canvas.
C10_SaveWritesOwnCanvas ==
    (last.op = "save" /\ fig[last.v] # 0) =>
        /\ sink # None
        /\ sink[1].figure = fig[last.v]
        /\ sink[1].prims = figures[fig[last.v]]
====
